---- MODULE Spec2Model ----
(***************************************************************************)
(* Model of ptsa.data.readers.base.BaseEventReader: the compilation of a   *)
(* batch of nested records into a fixed-layout record array (from_dict,    *)
(* mkdtype, get_element_dtype, copy_values), the two post-passes           *)
(* (replace_nans, path rewriting) and the read pipeline of the two         *)
(* sources (read_json, read_matlab).                                       *)
(*                                                                         *)
(* Python values are tagged records [kind, val]; a text is the sequence of *)
(* its code points; a float is [nan, x10] (x10 = ten times the value).     *)
(* A call's outcome is [err, val]: err = "" when it returned val, else the *)
(* name of the exception it raised.                                        *)
(***************************************************************************)
EXTENDS Integers, Sequences, FiniteSets, TLC

VARIABLES
    self,       \* the reader's attributes (set by __init__, lines 76-82)
    file,       \* what the file named self.filename deserialises to
    dir_prefix, \* what find_dir_prefix(filename, common_root) returns
    pc,         \* position of the running call
    evs,        \* read's local variable evs: the array being processed
    kept,       \* indices (into the array first built) of the rows of evs
    err,        \* the exception that left the call, "" if none
    element,    \* argument of a direct get_element_dtype call
    dtype       \* outcome of that call

vars == <<self, file, dir_prefix, pc, evs, kept, err, element, dtype>>

(***************************************************************************)
(* Python values                                                           *)
(***************************************************************************)
PyInt(n) == [kind |-> "int", val |-> n]
PyBool(b) == [kind |-> "bool", val |-> b]
PyFloat(x10) == [kind |-> "float", val |-> [nan |-> FALSE, x10 |-> x10]]
PyNaN == [kind |-> "float", val |-> [nan |-> TRUE, x10 |-> 0]]
PyText(s) == [kind |-> "text", val |-> s]
PyBytes(s) == [kind |-> "bytes", val |-> s]
PyNone == [kind |-> "null", val |-> 0]
PyList(s) == [kind |-> "list", val |-> s]
PyDict(items) == [kind |-> "dict", val |-> items]
Item(k, v) == [k |-> k, v |-> v]

\* isinstance(v, int): bool is a subclass of int in Python
IsInstanceInt(v) == v.kind \in {"int", "bool"}

Keys(dc) == [j \in 1..Len(dc.val) |-> dc.val[j].k]
HasKey(dc, k) == \E j \in 1..Len(dc.val) : dc.val[j].k = k
Get(dc, k) == dc.val[CHOOSE j \in 1..Len(dc.val) : dc.val[j].k = k].v

Ok(x) == [err |-> "", val |-> x]
Raise(e) == [err |-> e, val |-> <<>>]

Max(a, b) == IF a >= b THEN a ELSE b
Min(a, b) == IF a <= b THEN a ELSE b

(***************************************************************************)
(* numpy dtypes.  A scalar dtype is named by its base; a structured dtype  *)
(* has base "record" and the ordered field descriptions (name, dt, shape), *)
(* shape = <<>> for a scalar field and <<n>> for an n-element subarray.    *)
(***************************************************************************)
DT(base) == [base |-> base, fields |-> <<>>]
RecordDT(fields) == [base |-> "record", fields |-> fields]
Field(name, dt, shape) == [name |-> name, dt |-> dt, shape |-> shape]

\* the element capacity of the 'U256' / 'S256' text dtypes
TextCapacity == 256

(***************************************************************************)
(* get_element_dtype / mkdtype (lines 254-283)                             *)
(***************************************************************************)
RECURSIVE get_element_dtype(_)
RECURSIVE mkdtype(_)
RECURSIVE mkdtype_items(_, _, _)

\* the elif chain of lines 256-271, in the source's order
get_element_dtype(e) ==
    IF e.kind = "dict" THEN mkdtype(e)
    ELSE IF IsInstanceInt(e) THEN Ok(DT("int64"))
    ELSE IF e.kind = "bytes" THEN Ok(DT("S256"))
    ELSE IF e.kind = "text" THEN Ok(DT("U256"))
    ELSE IF e.kind = "bool" THEN Ok(DT("b"))
    ELSE IF e.kind = "float" THEN Ok(DT("float64"))
    ELSE IF e.kind = "list" THEN
        IF Len(e.val) = 0 THEN Raise("IndexError")
        ELSE get_element_dtype(e.val[1])
    ELSE Raise("Exception")

\* the loop of lines 280-281 from item j on; acc is the list built so far
mkdtype_items(items, j, acc) ==
    IF j > Len(items) THEN Ok(RecordDT(acc))
    ELSE LET r == get_element_dtype(items[j].v)
         IN  IF r.err # "" THEN r
             ELSE mkdtype_items(items, j + 1,
                                Append(acc, Field(items[j].k, r.val, <<>>)))

mkdtype(dv) ==
    IF dv.kind = "list" THEN
        IF Len(dv.val) = 0 THEN Raise("IndexError") ELSE mkdtype(dv.val[1])
    ELSE IF dv.kind = "dict" THEN mkdtype_items(dv.val, 1, <<>>)
    ELSE Raise("AttributeError")

(***************************************************************************)
(* numpy arrays: [dtype, rows].  A stored scalar is a tagged Python scalar *)
(* of the dtype's kind, a stored record is Rec(<<field values>>) in the    *)
(* dtype's field order, a stored subarray is Arr(<<elements>>).            *)
(***************************************************************************)
Rec(vals) == [kind |-> "rec", val |-> vals]
Arr(elems) == [kind |-> "arr", val |-> elems]
Array(dt, rows) == [dtype |-> dt, rows |-> rows]

HasField(dt, k) == \E j \in 1..Len(dt.fields) : dt.fields[j].name = k
FieldIndex(dt, k) == CHOOSE j \in 1..Len(dt.fields) : dt.fields[j].name = k

\* np.dtype(None) is numpy's default float64
np_dtype(dt) == IF dt.base = "None" THEN DT("float64") ELSE dt

RECURSIVE Zero(_)
\* one element of np.zeros(n, dt)
Zero(dt) ==
    CASE dt.base \in {"int64", "b"} -> PyInt(0)
      [] dt.base = "float64" -> PyFloat(0)
      [] dt.base = "U256" -> PyText(<<>>)
      [] dt.base = "S256" -> PyBytes(<<>>)
      [] dt.base = "record" ->
            Rec([j \in 1..Len(dt.fields) |->
                    IF dt.fields[j].shape = <<>> THEN Zero(dt.fields[j].dt)
                    ELSE Arr([i \in 1..dt.fields[j].shape[1] |->
                                 Zero(dt.fields[j].dt)])])

np_zeros(n, dt) == Array(dt, [i \in 1..n |-> Zero(dt)])

Truncate(s) == SubSeq(s, 1, Min(Len(s), TextCapacity))
TruncToZero(x10) == IF x10 >= 0 THEN x10 \div 10 ELSE -((-x10) \div 10)

RECURSIVE NatStr(_)
\* str() of the scalars: decimal digits, one decimal place for a float
NatStr(n) ==
    LET digit == <<"0", "1", "2", "3", "4", "5", "6", "7", "8", "9">>[(n % 10) + 1]
    IN  IF n < 10 THEN <<digit>> ELSE Append(NatStr(n \div 10), digit)
IntStr(n) == IF n < 0 THEN <<"-">> \o NatStr(-n) ELSE NatStr(n)
PyStr(v) ==
    CASE v.kind = "text" -> v.val
      [] v.kind = "int" -> IntStr(v.val)
      [] v.kind = "bool" -> IF v.val THEN <<"T", "r", "u", "e">>
                            ELSE <<"F", "a", "l", "s", "e">>
      [] v.kind = "null" -> <<"N", "o", "n", "e">>
      [] v.kind = "float" ->
            IF v.val.nan THEN <<"n", "a", "n">>
            ELSE (IF v.val.x10 < 0 THEN <<"-">> ELSE <<>>)
                 \o NatStr(TruncToZero(IF v.val.x10 < 0 THEN -v.val.x10
                                       ELSE v.val.x10))
                 \o <<".">>
                 \o NatStr((IF v.val.x10 < 0 THEN -v.val.x10 ELSE v.val.x10) % 10)

\* numpy's conversion of a Python value assigned to an element of scalar
\* dtype dt (arr[j] = v, rec[k] = v).  The texts of this model hold no
\* digits, so a text never parses as a number.
Cast(dt, v) ==
    CASE dt.base = "int64" /\ v.kind = "int" -> Ok(v)
      [] dt.base = "int64" /\ v.kind = "bool" ->
            Ok(PyInt(IF v.val THEN 1 ELSE 0))
      [] dt.base = "int64" /\ v.kind = "float" ->
            IF v.val.nan THEN Raise("ValueError")
            ELSE Ok(PyInt(TruncToZero(v.val.x10)))
      [] dt.base = "int64" /\ v.kind = "null" -> Raise("TypeError")
      [] dt.base = "int64" /\ v.kind = "text" -> Raise("ValueError")
      [] dt.base = "float64" /\ v.kind = "int" -> Ok(PyFloat(10 * v.val))
      [] dt.base = "float64" /\ v.kind = "bool" ->
            Ok(PyFloat(IF v.val THEN 10 ELSE 0))
      [] dt.base = "float64" /\ v.kind = "float" -> Ok(v)
      [] dt.base = "float64" /\ v.kind = "null" -> Ok(PyNaN)
      [] dt.base = "float64" /\ v.kind = "text" -> Raise("ValueError")
      [] dt.base = "U256" /\ v.kind \in {"text", "int", "bool", "float", "null"} ->
            Ok(PyText(Truncate(PyStr(v))))
      [] dt.base = "S256" /\ v.kind = "bytes" -> Ok(PyBytes(Truncate(v.val)))

(***************************************************************************)
(* strip_accents (lines 365-371): NFD-decompose, drop the combining marks. *)
(* Code points: plain characters are their own one-character string,       *)
(* "E_ACUTE" is the precomposed U+00E9 and "ACUTE" the combining U+0301.   *)
(* The except branch needs six.text_type(s) to raise UnicodeError, which   *)
(* it does not for a str.                                                  *)
(***************************************************************************)
NFD(c) == IF c = "E_ACUTE" THEN <<"e", "ACUTE">> ELSE <<c>>
IsMn(c) == c = "ACUTE"

RECURSIVE strip_accents(_)
strip_accents(s) ==
    IF Len(s) = 0 THEN <<>>
    ELSE SelectSeq(NFD(Head(s)), LAMBDA c : ~IsMn(c)) \o strip_accents(Tail(s))

(***************************************************************************)
(* copy_values (lines 327-363)                                             *)
(***************************************************************************)
InSeq(sq, x) == \E j \in 1..Len(sq) : sq[j] = x

\* list_info is the sequence of its entries [k, len, dtype]; None and the
\* empty mapping are both falsy in "list_info and k in list_info"
InListInfo(li, k) == \E j \in 1..Len(li) : li[j].k = k
ListInfo(li, k) == li[CHOOSE j \in 1..Len(li) : li[j].k = k]

\* rec_arr[i][k] = val
SetCell(arr, i, k, val) ==
    Array(arr.dtype,
          [arr.rows EXCEPT ![i] =
              Rec([arr.rows[i].val EXCEPT ![FieldIndex(arr.dtype, k)] = val])])

\* the keys of dict_fields (lines 332-335), in the first dict's key order
DictFieldNames(first) ==
    SelectSeq(Keys(first), LAMBDA k : Get(first, k).kind = "dict")

RECURSIVE fill_elements_skips_last(_, _, _, _)
\* fill_elements with the loop ended one element early
fill_elements_skips_last(v, dt, j, rows) ==
    IF j >= Len(v) THEN Ok(rows)
    ELSE LET c == Cast(dt, v[j])
         IN  IF c.err # "" THEN c
             ELSE fill_elements_skips_last(v, dt, j + 1, [rows EXCEPT ![j] = c.val])

RECURSIVE fill_elements(_, _, _, _)
\* lines 357-358: arr[j] = element, from element j on
fill_elements(v, dt, j, rows) ==
    IF j > Len(v) THEN Ok(rows)
    ELSE LET c == Cast(dt, v[j])
         IN  IF c.err # "" THEN c
             ELSE fill_elements(v, dt, j + 1, [rows EXCEPT ![j] = c.val])

RECURSIVE copy_values(_, _, _)
RECURSIVE copy_scalars(_, _, _, _, _, _)
RECURSIVE copy_lists(_, _, _, _, _)
RECURSIVE copy_dict_fields(_, _, _, _)

\* the loop of lines 337-347, from item j of record i on
copy_scalars(dl, arr, li, df, i, j) ==
    IF i > Len(dl) THEN Ok(arr)
    ELSE IF dl[i].kind # "dict" THEN Raise("AttributeError")
    ELSE IF j > Len(dl[i].val) THEN copy_scalars(dl, arr, li, df, i + 1, 1)
    ELSE LET k == dl[i].val[j].k
             v == dl[i].val[j].v
         IN  IF InSeq(df, k) \/ InListInfo(li, k)
             THEN copy_scalars(dl, arr, li, df, i, j + 1)
             ELSE IF arr.dtype.base # "record" THEN Raise("IndexError")
             ELSE IF ~HasField(arr.dtype, k) THEN Raise("ValueError")
             ELSE IF v.kind = "dict" THEN
                 \* line 343: rec_arr[i][k] is one record (or a scalar), and
                 \* the callee indexes it with [0][key]
                 IF Len(v.val) = 0
                 THEN copy_scalars(dl, arr, li, df, i, j + 1)
                 ELSE Raise("IndexError")
             ELSE LET dt == arr.dtype.fields[FieldIndex(arr.dtype, k)].dt
                      c == Cast(dt, IF v.kind = "text"
                                    THEN PyText(strip_accents(v.val)) ELSE v)
                  IN  IF c.err # "" THEN c
                      ELSE copy_scalars(dl, SetCell(arr, i, k, c.val),
                                        li, df, i, j + 1)

\* the loop of lines 349-360, from item j of record i on
copy_lists(dl, arr, li, i, j) ==
    IF i > Len(dl) THEN Ok(arr)
    ELSE IF j > Len(dl[i].val) THEN copy_lists(dl, arr, li, i + 1, 1)
    ELSE LET k == dl[i].val[j].k
             v == dl[i].val[j].v
         IN  IF ~InListInfo(li, k) THEN copy_lists(dl, arr, li, i, j + 1)
             ELSE LET info == ListInfo(li, k)
                      dt == np_dtype(info.dtype)
                      zs == np_zeros(info.len, dt)
                      r == IF Len(v.val) = 0 THEN Ok(zs)
                           ELSE IF v.val[1].kind = "dict"
                           THEN copy_values(v.val, zs, <<>>)
                           ELSE LET f == fill_elements(v.val, dt, 1, zs.rows)
                                IN  IF f.err # "" THEN f
                                    ELSE Ok(Array(dt, f.val))
                  IN  IF r.err # "" THEN r
                      ELSE copy_lists(dl, SetCell(arr, i, k, Arr(r.val.rows)),
                                      li, i, j + 1)

RECURSIVE copy_dict_fields_first_record(_, _, _, _)
\* copy_dict_fields with the column gathered from the first record only
copy_dict_fields_first_record(dl, arr, df, n) ==
    IF n > Len(df) THEN Ok(arr)
    ELSE LET k == df[n]
             x == FieldIndex(arr.dtype, k)
             column == [i \in 1..Len(dl) |-> Get(dl[1], k)]
             sub == Array(arr.dtype.fields[x].dt,
                          [i \in 1..Len(dl) |-> arr.rows[i].val[x]])
             r == copy_values(column, sub, <<>>)
         IN  IF r.err # "" THEN r
             ELSE copy_dict_fields_first_record(dl,
                      Array(arr.dtype,
                            [i \in 1..Len(dl) |->
                                Rec([arr.rows[i].val EXCEPT ![x] = r.val.rows[i]])]),
                      df, n + 1)

\* the loop of lines 362-363, from the n-th dict field on
copy_dict_fields(dl, arr, df, n) ==
    IF n > Len(df) THEN Ok(arr)
    ELSE LET k == df[n]
             x == FieldIndex(arr.dtype, k)
             column == [i \in 1..Len(dl) |-> Get(dl[i], k)]
             sub == Array(arr.dtype.fields[x].dt,
                          [i \in 1..Len(dl) |-> arr.rows[i].val[x]])
             r == copy_values(column, sub, <<>>)
         IN  IF r.err # "" THEN r
             ELSE copy_dict_fields(dl,
                      Array(arr.dtype,
                            [i \in 1..Len(dl) |->
                                Rec([arr.rows[i].val EXCEPT ![x] = r.val.rows[i]])]),
                      df, n + 1)

\* returns the array as the in-place writes leave it
copy_values(dict_list, rec_arr, list_info) ==
    IF Len(dict_list) = 0 THEN Ok(rec_arr)
    ELSE IF dict_list[1].kind # "dict" THEN Raise("AttributeError")
    ELSE LET df == DictFieldNames(dict_list[1])
         IN  IF \E n \in 1..Len(df), i \in 1..Len(dict_list) :
                    dict_list[i].kind # "dict" \/ ~HasKey(dict_list[i], df[n])
             THEN Raise("KeyError")
             ELSE LET r1 == copy_scalars(dict_list, rec_arr, list_info, df, 1, 1)
                  IN  IF r1.err # "" THEN r1
                      ELSE LET r2 == copy_lists(dict_list, r1.val, list_info, 1, 1)
                           IN  IF r2.err # "" THEN r2
                               ELSE copy_dict_fields(dict_list, r2.val, df, 1)

(***************************************************************************)
(* from_dict (lines 291-325)                                               *)
(***************************************************************************)
\* "not list_info[k]['dtype']": None and a dtype of no fields are falsy
Falsy(dt) == dt.base = "None" \/ (dt.base = "record" /\ Len(dt.fields) = 0)

\* scan_one without the "not list_info[k]['dtype']" guard: last-seen wins
scan_one_last_wins(info, v) ==
    IF v.kind # "list" THEN Raise("TypeError")
    ELSE LET n == Max(info.len, Len(v.val))
         IN  IF Len(v.val) > 0
             THEN LET r == IF v.val[1].kind = "dict" THEN mkdtype(v.val[1])
                           ELSE get_element_dtype(v)
                  IN  IF r.err # "" THEN r
                      ELSE Ok([k |-> info.k, len |-> n, dtype |-> r.val])
             ELSE Ok([k |-> info.k, len |-> n, dtype |-> info.dtype])

\* lines 306-311 for one entry and one list name
scan_one(info, v) ==
    IF v.kind # "list" THEN Raise("TypeError")
    ELSE LET n == Max(info.len, Len(v.val))
         IN  IF Falsy(info.dtype) /\ Len(v.val) > 0
             THEN LET r == IF v.val[1].kind = "dict" THEN mkdtype(v.val[1])
                           ELSE get_element_dtype(v)
                  IN  IF r.err # "" THEN r
                      ELSE Ok([k |-> info.k, len |-> n, dtype |-> r.val])
             ELSE Ok([k |-> info.k, len |-> n, dtype |-> info.dtype])

RECURSIVE scan_lists(_, _, _, _)
\* the loops of lines 304-311, from list name n of entry e on
scan_lists(dl, li, e, n) ==
    IF e > Len(dl) THEN Ok(li)
    ELSE IF n > Len(li) THEN scan_lists(dl, li, e + 1, 1)
    ELSE IF dl[e].kind # "dict" THEN Raise("TypeError")
    ELSE IF ~HasKey(dl[e], li[n].k) THEN Raise("KeyError")
    ELSE LET r == scan_one(li[n], Get(dl[e], li[n].k))
         IN  IF r.err # "" THEN r
             ELSE scan_lists(dl, [li EXCEPT ![n] = r.val], e, n + 1)

RECURSIVE make_dtypes(_, _, _, _)
\* the loop of lines 314-318, from item j of the first record on
make_dtypes(items, li, j, acc) ==
    IF j > Len(items) THEN Ok(acc)
    ELSE IF InListInfo(li, items[j].k)
    THEN LET info == ListInfo(li, items[j].k)
         IN  make_dtypes(items, li, j + 1,
                 Append(acc, Field(items[j].k, np_dtype(info.dtype), <<info.len>>)))
    ELSE LET r == get_element_dtype(items[j].v)
         IN  IF r.err # "" THEN r
             ELSE make_dtypes(items, li, j + 1,
                      Append(acc, Field(items[j].k, r.val, <<>>)))

\* the list of lines 296-302: one fresh entry per list-valued key of d[0]
list_names(first) ==
    SelectSeq(Keys(first), LAMBDA k : Get(first, k).kind = "list")

\* from_dict without the "if dtypes:" test of line 320: np.zeros is
\* allocated for a schema of no fields too
from_dict_always_zeros(d) ==
    LET dl == IF d.kind = "list" THEN d.val ELSE <<d>>
    IN  IF Len(dl) = 0 THEN Raise("IndexError")
        ELSE IF dl[1].kind # "dict" THEN Raise("AttributeError")
        ELSE
        LET names == list_names(dl[1])
            li0 == [n \in 1..Len(names) |->
                       [k |-> names[n], len |-> 0, dtype |-> DT("None")]]
            li == scan_lists(dl, li0, 1, 1)
        IN  IF li.err # "" THEN li
            ELSE LET dts == make_dtypes(dl[1].val, li.val, 1, <<>>)
                 IN  IF dts.err # "" THEN dts
                     ELSE copy_values(dl, np_zeros(Len(dl), RecordDT(dts.val)),
                                      li.val)

from_dict(d) ==
    LET dl == IF d.kind = "list" THEN d.val ELSE <<d>>
    IN  IF Len(dl) = 0 THEN Raise("IndexError")
        ELSE IF dl[1].kind # "dict" THEN Raise("AttributeError")
        ELSE
        LET names == list_names(dl[1])
            li0 == [n \in 1..Len(names) |->
                       [k |-> names[n], len |-> 0, dtype |-> DT("None")]]
            li == scan_lists(dl, li0, 1, 1)
        IN  IF li.err # "" THEN li
            ELSE LET dts == make_dtypes(dl[1].val, li.val, 1, <<>>)
                 IN  IF dts.err # "" THEN dts
                     ELSE IF Len(dts.val) > 0
                     THEN copy_values(dl, np_zeros(Len(dl), RecordDT(dts.val)),
                                      li.val)
                     ELSE Ok(Array(DT("float64"), <<>>))

(***************************************************************************)
(* replace_nans (lines 219-229)                                            *)
(***************************************************************************)
\* the default of the replacement_val parameter (line 219)
DefaultReplacementVal == -999

IsNaN(v) == v.kind = "float" /\ v.val.nan

\* np.isnan(evs[field_name]) raises TypeError for these fields (text and
\* structured columns), and the except clause skips them
IsnanTypeError(f) == f.dt.base \in {"U256", "S256", "record"}

\* replace_in_cell that handles scalar columns only
replace_in_cell_scalar_only(f, cell, replacement_val) ==
    IF f.dt.base = "float64" /\ f.shape = <<>> /\ IsNaN(cell)
    THEN PyFloat(10 * replacement_val) ELSE cell

\* evs[field_name][nan_selector] = replacement_val on one stored cell
replace_in_cell(f, cell, replacement_val) ==
    LET sub(v) == IF IsNaN(v) THEN Cast(f.dt, PyInt(replacement_val)).val ELSE v
    IN  IF IsnanTypeError(f) THEN cell
        ELSE IF f.shape = <<>> THEN sub(cell)
        ELSE Arr([j \in 1..Len(cell.val) |-> sub(cell.val[j])])

\* replace_nans with the try around the whole loop: the first field on
\* which np.isnan raises TypeError ends the pass
replace_nans_stops_at_mismatch(a, replacement_val) ==
    IF a.dtype.base # "record" THEN Raise("IndexError")
    ELSE Ok(Array(a.dtype,
                  [i \in 1..Len(a.rows) |->
                      Rec([j \in 1..Len(a.dtype.fields) |->
                              IF \E n \in 1..j : IsnanTypeError(a.dtype.fields[n])
                              THEN a.rows[i].val[j]
                              ELSE replace_in_cell(a.dtype.fields[j],
                                                   a.rows[i].val[j],
                                                   replacement_val)])]))

\* the loop over evs.dtype.descr; an array that is not structured has the
\* single description ('', '<f8') and evs[''] raises IndexError
replace_nans(a, replacement_val) ==
    IF a.dtype.base # "record" THEN Raise("IndexError")
    ELSE Ok(Array(a.dtype,
                  [i \in 1..Len(a.rows) |->
                      Rec([j \in 1..Len(a.dtype.fields) |->
                              replace_in_cell(a.dtype.fields[j],
                                              a.rows[i].val[j],
                                              replacement_val)])]))

(***************************************************************************)
(* Texts and paths: str.replace, os.path.join, pathlib parts, str(tuple),  *)
(* and the one regular expression of normalize_paths                       *)
(***************************************************************************)
IsAt(s, pat, p) ==
    p + Len(pat) - 1 <= Len(s) /\ SubSeq(s, p, p + Len(pat) - 1) = pat
Occurrences(s, pat) == {p \in 1..Len(s) : IsAt(s, pat, p)}
SetMin(S) == CHOOSE x \in S : \A y \in S : x <= y
SetMax(S) == CHOOSE x \in S : \A y \in S : y <= x

RECURSIVE str_replace(_, _, _)
\* s.replace(old, new): every non-overlapping occurrence, left to right
str_replace(s, old, new) ==
    IF Len(s) < Len(old) THEN s
    ELSE IF IsAt(s, old, 1)
    THEN new \o str_replace(SubSeq(s, Len(old) + 1, Len(s)), old, new)
    ELSE <<Head(s)>> \o str_replace(Tail(s), old, new)

\* os.path.join(a, b) on a posix system
path_join(a, b) ==
    IF Len(b) > 0 /\ b[1] = "/" THEN b
    ELSE IF Len(a) = 0 \/ a[Len(a)] = "/" THEN a \o b
    ELSE a \o <<"/">> \o b

RECURSIVE SplitPath(_, _, _)
\* the components of s between the separators; empty ones and "." dropped
SplitPath(s, cur, acc) ==
    LET done == IF cur = <<>> \/ cur = <<".">> THEN acc ELSE Append(acc, cur)
    IN  IF Len(s) = 0 THEN done
        ELSE IF Head(s) = "/" THEN SplitPath(Tail(s), <<>>, done)
        ELSE SplitPath(Tail(s), Append(cur, Head(s)), acc)

\* pathlib.Path(s).parts for a posix path (one leading separator at most)
path_parts(s) ==
    (IF Len(s) > 0 /\ s[1] = "/" THEN << <<"/">> >> ELSE <<>>)
    \o SplitPath(s, <<>>, <<>>)

RECURSIVE JoinQuoted(_)
JoinQuoted(parts) ==
    IF Len(parts) = 0 THEN <<>>
    ELSE <<"'">> \o Head(parts) \o <<"'">>
         \o (IF Len(parts) > 1 THEN <<",", " ">> \o JoinQuoted(Tail(parts))
             ELSE <<>>)

\* str(t) of a tuple of plain strings
tuple_str(parts) ==
    <<"(">> \o JoinQuoted(parts)
    \o (IF Len(parts) = 1 THEN <<",">> ELSE <<>>) \o <<")">>

\* re.sub(head + '.*' + tail, good, s): the leftmost match, '.*' greedy
re_sub(head, tail, good, s) ==
    LET tails == Occurrences(s, tail)
        heads == {p \in Occurrences(s, head) :
                     \E q \in tails : q >= p + Len(head)}
    IN  IF heads = {} THEN s
        ELSE SubSeq(s, 1, SetMin(heads) - 1) \o good
             \o SubSeq(s, SetMax(tails) + Len(tail), Len(s))

(***************************************************************************)
(* The reader's passes over the eegfile column (lines 93-121, 154-169,     *)
(* 187-211)                                                                *)
(***************************************************************************)
\* ev.<name> of row i; the row must have the field
Attr(a, i, name) == a.rows[i].val[FieldIndex(a.dtype, name)]
HasAttr(a, name) == a.dtype.base = "record" /\ HasField(a.dtype, name)

\* ev.eegfile = texts[i], for every row i
SetEegfile(a, texts) ==
    Array(a.dtype,
          [i \in 1..Len(a.rows) |->
              Rec([a.rows[i].val EXCEPT ![FieldIndex(a.dtype, "eegfile")] =
                      Cast(DT("U256"), PyText(texts[i])).val])])

\* threshold of the "has an eeg file" test (lines 161 and 196)
MinEegfileLen == 3

\* variant of the test that keeps a record of exactly the threshold length
indicator_at_least(a, i) == Len(PyStr(Attr(a, i, "eegfile"))) >= MinEegfileLen

\* indicator[i] = (len(str(evs[i].eegfile)) > 3)
indicator(a, i) == Len(PyStr(Attr(a, i, "eegfile"))) > MinEegfileLen

RECURSIVE SelectIndices(_, _, _)
\* the positions the boolean mask keeps, in increasing order
SelectIndices(a, i, acc) ==
    IF i > Len(a.rows) THEN acc
    ELSE SelectIndices(a, i + 1, IF indicator(a, i) THEN Append(acc, i) ELSE acc)

\* evs[indicator]
mask(a, idx) == Array(a.dtype, [m \in 1..Len(idx) |-> a.rows[idx[m]]])

\* modify_eeg_path (lines 112-121)
modify_eeg_path(events) ==
    SetEegfile(events,
               [i \in 1..Len(events.rows) |->
                   str_replace(Attr(events, i, "eegfile").val,
                               <<"e", "e", "g", ".", "r", "e", "r", "e", "f">>,
                               <<"e", "e", "g", ".", "n", "o", "r", "e", "r", "e", "f">>)])

\* normalize_paths (lines 93-110), posix branch
normalize_paths(events) ==
    IF Len(events.rows) = 0 THEN Raise("IndexError")
    ELSE IF ~HasAttr(events, "subject") THEN Raise("AttributeError")
    ELSE LET subject == Attr(events, 1, "subject").val
             tail == <<"/">> \o subject \o <<"/", "e", "e", "g">>
         IN  Ok(SetEegfile(events,
                    [i \in 1..Len(events.rows) |->
                        re_sub(<<"/", "d", "a", "t", "a">>, tail,
                               <<"/", "d", "a", "t", "a", "/", "e", "e", "g">> \o tail,
                               Attr(events, i, "eegfile").val)]))

\* find_data_dir_prefix that hands back whatever find_dir_prefix returned
find_data_dir_prefix_unchecked(prefix) == Ok(prefix)

\* find_data_dir_prefix (lines 231-250); prefix is find_dir_prefix's result
find_data_dir_prefix(prefix) ==
    IF Len(prefix) = 0 THEN Raise("RuntimeError") ELSE Ok(prefix)

\* t[1:]
DropFirst(t) == IF Len(t) = 0 THEN <<>> ELSE Tail(t)

\* lines 204-205
rebase_paths(a, prefix) ==
    SetEegfile(a,
               [i \in 1..Len(a.rows) |->
                   path_join(prefix,
                             tuple_str(DropFirst(path_parts(PyStr(Attr(a, i, "eegfile"))))))])

(***************************************************************************)
(* Direct calls of the classifier: SpecClassify                            *)
(***************************************************************************)
\* longest list / batch the specifications draw
MaxLen == 2
MaxBatch == 2

NoArray == Array(DT("None"), <<>>)
NoOutcome == Raise("pending")
NoReader == [filename |-> "", eliminate_events_with_no_eeg |-> FALSE,
             eliminate_nans |-> FALSE, use_reref_eeg |-> FALSE,
             normalize_eeg_path |-> FALSE, alter_eeg_path_flag |-> FALSE]

SeqsUpTo(S, n) == UNION {[1..m -> S] : m \in 0..n}

ScalarValues ==
    {PyBool(TRUE), PyBool(FALSE), PyInt(0), PyInt(1), PyInt(-3),
     PyFloat(0), PyFloat(15), PyNaN, PyNone,
     PyText(<<>>), PyText(<<"a", "E_ACUTE">>),
     PyBytes(<<>>), PyBytes(<<"a", "b">>)}

ClassifierInputs ==
    ScalarValues
    \cup {PyList(l) : l \in SeqsUpTo(ScalarValues, MaxLen)}
    \cup {PyDict(<<Item("a", v)>>) : v \in ScalarValues}
    \cup {PyDict(<<Item("a", v), Item("b", PyList(<<w>>))>>) :
             v \in {PyInt(1), PyNone}, w \in {PyFloat(15), PyBool(TRUE)}}
    \cup {PyDict(<<>>), PyList(<<PyDict(<<Item("a", PyBool(TRUE))>>)>>)}

InitClassify ==
    /\ self = NoReader
    /\ file = PyNone
    /\ dir_prefix = <<>>
    /\ pc = "start"
    /\ evs = NoArray
    /\ kept = <<>>
    /\ err = ""
    /\ element \in ClassifierInputs
    /\ dtype = NoOutcome

\* dtype = cls.get_element_dtype(element)
Classify ==
    /\ pc = "start"
    /\ dtype' = get_element_dtype(element)
    /\ pc' = "classified"
    /\ UNCHANGED <<self, file, dir_prefix, evs, kept, err, element>>

NextClassify == Classify

SpecClassify == InitClassify /\ [][NextClassify]_vars

(***************************************************************************)
(* Direct calls of from_dict and replace_nans: SpecFromDict                *)
(***************************************************************************)
IntLists == {[j \in 1..n |-> PyInt(j + b)] : n \in 0..MaxLen, b \in {0, 5}}

OtherLists ==
    {<<PyFloat(15)>>, <<PyNaN, PyFloat(25)>>, <<PyInt(1), PyFloat(5)>>,
     <<PyText(<<"a", "ACUTE">>)>>}

RecordPool ==
    {PyDict(<<Item("vals", PyList(l))>>) : l \in IntLists \cup OtherLists}
    \cup {PyDict(<<Item("x", x), Item("vals", PyList(l))>>) :
             x \in {PyInt(1), PyFloat(15), PyNaN},
             l \in {<<>>, <<PyInt(1), PyInt(2)>>}}
    \cup {PyDict(<<Item("vals", PyList(l)), Item("x", x)>>) :
             x \in {PyInt(1), PyFloat(15), PyNaN},
             l \in {<<>>, <<PyInt(1), PyInt(2)>>}}
    \cup {PyDict(<<Item("x", x)>>) :
             x \in {PyInt(1), PyBool(TRUE), PyNaN, PyNone,
                    PyText(<<"c", "a", "f", "E_ACUTE">>)}}
    \cup {PyDict(<<Item("st", PyDict(<<Item("amp", PyNaN)>>)),
                   Item("x", PyFloat(15))>>),
          PyDict(<<Item("st", PyDict(<<Item("amp", PyFloat(25))>>)),
                   Item("x", PyNaN)>>),
          PyDict(<<Item("x", PyFloat(15)),
                   Item("st", PyDict(<<Item("amp", PyFloat(5))>>))>>)}
    \cup {PyDict(<<Item("ps", PyList(<<>>))>>),
          PyDict(<<Item("ps", PyList(<<PyDict(<<Item("q", PyFloat(15))>>)>>))>>),
          PyDict(<<Item("ps", PyList(<<PyDict(<<Item("q", PyNaN)>>),
                                       PyDict(<<Item("q", PyFloat(25))>>)>>))>>)}
    \cup {PyDict(<<Item("x", PyNaN), Item("t", PyText(<<"a">>)),
                   Item("y", PyNaN)>>),
          PyDict(<<Item("x", PyFloat(15)), Item("t", PyText(<<"e", "ACUTE">>)),
                   Item("y", PyFloat(25))>>)}
    \cup {PyDict(<<>>)}

\* json.load gives a list of records, or one record alone
FromDictInputs ==
    {PyList(b) : b \in SeqsUpTo(RecordPool, MaxBatch)} \cup RecordPool

\* the batch from_dict works on (lines 293-294)
Batch(d) == IF d.kind = "list" THEN d.val ELSE <<d>>

InitFromDict ==
    /\ self = NoReader
    /\ file \in FromDictInputs
    /\ dir_prefix = <<>>
    /\ pc = "start"
    /\ evs = NoArray
    /\ kept = <<>>
    /\ err = ""
    /\ element = PyNone
    /\ dtype = NoOutcome

\* evs = BaseEventReader.from_dict(d)
Compile ==
    /\ pc = "start"
    /\ LET r == from_dict(file)
       IN  IF r.err # ""
           THEN pc' = "raised" /\ err' = r.err /\ evs' = NoArray
           ELSE pc' = "compiled" /\ err' = "" /\ evs' = r.val
    /\ UNCHANGED <<self, file, dir_prefix, kept, element, dtype>>

\* evs = reader.replace_nans(evs)
Sanitize ==
    /\ pc = "compiled"
    /\ LET r == replace_nans(evs, DefaultReplacementVal)
       IN  IF r.err # ""
           THEN pc' = "raised" /\ err' = r.err /\ evs' = NoArray
           ELSE pc' = "sanitized" /\ err' = "" /\ evs' = r.val
    /\ UNCHANGED <<self, file, dir_prefix, kept, element, dtype>>

NextFromDict == Compile \/ Sanitize

SpecFromDict == InitFromDict /\ [][NextFromDict]_vars

(***************************************************************************)
(* The reader: __init__, the two setters and read (lines 70-217): Spec     *)
(***************************************************************************)
JsonFile == "/p/b/events.json"
MatFile == "/m/data/events/R_events.mat"

\* os.path.splitext(filename)[-1]
splitext(filename) == IF filename = JsonFile THEN ".json" ELSE ".mat"

\* abspath(join(dirname(JsonFile), '..', '..', 'ephys', 'current_processed',
\* 'noreref')) (lines 166-167)
EegDir ==
    <<"/", "e", "p", "h", "y", "s", "/", "c", "u", "r", "r", "e", "n", "t", "_",
      "p", "r", "o", "c", "e", "s", "s", "e", "d", "/", "n", "o", "r", "e", "r",
      "e", "f">>

\* __init__ (lines 70-82)
init(filename, no_eeg, nans, reref, normalize) ==
    [filename |-> filename,
     eliminate_events_with_no_eeg |-> no_eeg,
     eliminate_nans |-> nans,
     use_reref_eeg |-> reref,
     normalize_eeg_path |-> normalize,
     alter_eeg_path_flag |-> ~reref]

\* the events files of the JSON source
JsonEegTexts ==
    {<<>>, <<"a", "b", "c">>, <<"a", "b", "c", "d">>,
     <<"e", "ACUTE", "e", "ACUTE">>}

JsonPayloads ==
    {<<PyFloat(15), <<PyInt(1)>> >>, <<PyNaN, <<PyInt(1), PyInt(2)>> >>}

JsonPool ==
    {PyDict(<<Item("eegfile", PyText(t)), Item("x", pl[1]),
              Item("vals", PyList(pl[2]))>>) :
        t \in JsonEegTexts, pl \in JsonPayloads}
    \cup {PyDict(<<Item("x", PyFloat(15))>>),
          PyDict(<<Item("eegfile", PyText(<<"a", "b", "c", "d">>)),
                   Item("x", PyNone)>>),
          PyDict(<<>>)}

JsonInputs == {PyList(b) : b \in SeqsUpTo(JsonPool, MaxBatch)}

\* the events matrices of the MATLAB source
MatEegTexts ==
    {<<>>, <<"a", "b", "c">>,
     <<"/", "d", "a", "t", "a", "/", "e", "e", "g", "/", "R", "/",
       "e", "e", "g", ".", "r", "e", "r", "e", "f", "/", "s">>}

MatDtype ==
    RecordDT(<<Field("subject", DT("U256"), <<>>),
               Field("eegfile", DT("U256"), <<>>),
               Field("x", DT("float64"), <<>>)>>)
MatDtypeNoEeg ==
    RecordDT(<<Field("subject", DT("U256"), <<>>),
               Field("x", DT("float64"), <<>>)>>)

MatRows ==
    {Rec(<<PyText(<<"R">>), PyText(t), x>>) :
        t \in MatEegTexts, x \in {PyFloat(15), PyNaN}}
MatRowsNoEeg == {Rec(<<PyText(<<"R">>), x>>) : x \in {PyFloat(15), PyNaN}}

MatInputs ==
    {Array(MatDtype, r) : r \in SeqsUpTo(MatRows, MaxBatch)}
    \cup {Array(MatDtypeNoEeg, r) : r \in SeqsUpTo(MatRowsNoEeg, MaxBatch)}

Init ==
    /\ \E f \in {JsonFile, MatFile}, a, b, c, n \in BOOLEAN :
          self = init(f, a, b, c, n)
    /\ IF splitext(self.filename) = ".json"
       THEN file \in JsonInputs /\ dir_prefix = <<>>
       ELSE file \in MatInputs /\ dir_prefix \in {<<>>, <<"/", "m">>}
    /\ pc = "idle"
    /\ evs = NoArray
    /\ kept = <<>>
    /\ err = ""
    /\ element = PyNone
    /\ dtype = NoOutcome

Untouched == UNCHANGED <<self, file, dir_prefix, element, dtype>>

\* an exception leaves read: the array in progress is gone with the frame
Fail(e) == pc' = "raised" /\ err' = e /\ evs' = NoArray /\ kept' = <<>>

\* reader.use_reref_eeg = val: a plain attribute
SetUseRerefEeg ==
    /\ pc = "idle"
    /\ \E val \in BOOLEAN : self' = [self EXCEPT !.use_reref_eeg = val]
    /\ UNCHANGED <<file, dir_prefix, pc, evs, kept, err, element, dtype>>

\* reader.alter_eeg_path_flag = val (lines 88-91)
SetAlterEegPathFlag ==
    /\ pc = "idle"
    /\ \E val \in BOOLEAN :
          self' = [self EXCEPT !.alter_eeg_path_flag = val,
                               !.use_reref_eeg = ~val]
    /\ UNCHANGED <<file, dir_prefix, pc, evs, kept, err, element, dtype>>

\* read (lines 123-127)
Read ==
    /\ pc = "idle"
    /\ pc' = IF splitext(self.filename) = ".json" THEN "read_json"
             ELSE "read_matlab"
    /\ UNCHANGED <<evs, kept, err>>
    /\ Untouched

\* check_reader_settings_for_json_read (lines 143-150)
CheckReaderSettings ==
    /\ pc = "read_json"
    /\ IF self.use_reref_eeg THEN Fail("NotImplementedError")
       ELSE pc' = "from_json" /\ UNCHANGED <<evs, kept, err>>
    /\ Untouched

\* read_json with the records of a short eegfile dropped from the raw batch,
\* before from_dict compiles it
FromJson_filter_first ==
    /\ pc = "from_json"
    /\ LET dl == IF file.kind = "list" THEN file.val ELSE <<file>>
           long(r) == r.kind = "dict" /\ HasKey(r, "eegfile")
                      /\ Len(PyStr(Get(r, "eegfile"))) > MinEegfileLen
           r == from_dict(IF self.eliminate_events_with_no_eeg
                          THEN PyList(SelectSeq(dl, long)) ELSE file)
       IN  IF r.err # "" THEN Fail(r.err)
           ELSE /\ pc' = "json_eliminate"
                /\ evs' = r.val
                /\ kept' = [i \in 1..Len(r.val.rows) |-> i]
                /\ err' = ""
    /\ Untouched

\* evs = self.from_json(self.filename) (line 152)
FromJson ==
    /\ pc = "from_json"
    /\ LET r == from_dict(file)
       IN  IF r.err # "" THEN Fail(r.err)
           ELSE /\ pc' = "json_eliminate"
                /\ evs' = r.val
                /\ kept' = [i \in 1..Len(r.val.rows) |-> i]
                /\ err' = ""
    /\ Untouched

\* lines 154-163
JsonEliminate ==
    /\ pc = "json_eliminate"
    /\ IF ~self.eliminate_events_with_no_eeg
       THEN pc' = "json_eeg_dir" /\ UNCHANGED <<evs, kept, err>>
       ELSE IF Len(evs.rows) > 0 /\ ~HasAttr(evs, "eegfile")
       THEN Fail("AttributeError")
       ELSE LET idx == SelectIndices(evs, 1, <<>>)
            IN  /\ pc' = "json_eeg_dir"
                /\ evs' = mask(evs, idx)
                /\ kept' = [m \in 1..Len(idx) |-> kept[idx[m]]]
                /\ err' = ""
    /\ Untouched

\* lines 165-171; dtype.names is None for an array that is not structured
JsonEegDir ==
    /\ pc = "json_eeg_dir"
    /\ IF evs.dtype.base # "record" THEN Fail("TypeError")
       ELSE /\ pc' = "returned"
            /\ evs' = IF HasAttr(evs, "eegfile")
                      THEN SetEegfile(evs,
                               [i \in 1..Len(evs.rows) |->
                                   path_join(EegDir, PyStr(Attr(evs, i, "eegfile")))])
                      ELSE evs
            /\ UNCHANGED <<kept, err>>
    /\ Untouched

\* lines 183-185
LoadMatlab ==
    /\ pc = "read_matlab"
    /\ pc' = "mat_eliminate"
    /\ evs' = file
    /\ kept' = [i \in 1..Len(file.rows) |-> i]
    /\ UNCHANGED err
    /\ Untouched

\* lines 187-199
MatEliminate ==
    /\ pc = "mat_eliminate"
    /\ IF HasAttr(evs, "eegfile") /\ self.eliminate_events_with_no_eeg
       THEN LET idx == SelectIndices(evs, 1, <<>>)
            IN  /\ evs' = mask(evs, idx)
                /\ kept' = [m \in 1..Len(idx) |-> kept[idx[m]]]
       ELSE UNCHANGED <<evs, kept>>
    /\ pc' = "mat_normalize"
    /\ UNCHANGED err
    /\ Untouched

\* lines 201-207
MatNormalize ==
    /\ pc = "mat_normalize"
    /\ IF HasAttr(evs, "eegfile") /\ self.normalize_eeg_path
       THEN LET pr == find_data_dir_prefix(dir_prefix)
            IN  IF pr.err # "" THEN Fail(pr.err)
                ELSE LET r == normalize_paths(rebase_paths(evs, pr.val))
                     IN  IF r.err # "" THEN Fail(r.err)
                         ELSE /\ pc' = "mat_modify"
                              /\ evs' = r.val
                              /\ UNCHANGED <<kept, err>>
       ELSE pc' = "mat_modify" /\ UNCHANGED <<evs, kept, err>>
    /\ Untouched

\* lines 209-211
MatModify ==
    /\ pc = "mat_modify"
    /\ evs' = IF HasAttr(evs, "eegfile") /\ self.alter_eeg_path_flag
              THEN modify_eeg_path(evs) ELSE evs
    /\ pc' = "mat_nans"
    /\ UNCHANGED <<kept, err>>
    /\ Untouched

\* lines 213-217
MatReplaceNans ==
    /\ pc = "mat_nans"
    /\ IF self.eliminate_nans
       THEN LET r == replace_nans(evs, DefaultReplacementVal)
            IN  IF r.err # "" THEN Fail(r.err)
                ELSE pc' = "returned" /\ evs' = r.val /\ UNCHANGED <<kept, err>>
       ELSE pc' = "returned" /\ UNCHANGED <<evs, kept, err>>
    /\ Untouched

Next ==
    \/ SetUseRerefEeg
    \/ SetAlterEegPathFlag
    \/ Read
    \/ CheckReaderSettings
    \/ FromJson
    \/ JsonEliminate
    \/ JsonEegDir
    \/ LoadMatlab
    \/ MatEliminate
    \/ MatNormalize
    \/ MatModify
    \/ MatReplaceNans

Spec == Init /\ [][Next]_vars

(***************************************************************************)
(* Properties of from_dict and replace_nans                                *)
(***************************************************************************)
FirstRecord == Batch(file)[1]
FieldNames(dt) == [j \in 1..Len(dt.fields) |-> dt.fields[j].name]

\* C1 as stated: the array from_dict returns has exactly as many slots as
\* the batch has records, whatever fields the records carry.
C1_LengthEqualsInput ==
    pc = "compiled" => Len(evs.rows) = Len(Batch(file))

\* C1 amended: the returned array has as many slots as the batch has records
\* when the first record has at least one field, and no slot when the first
\* record has no field.
C1_LengthEqualsInputWhenFields ==
    pc = "compiled" =>
        Len(evs.rows) = (IF Len(FirstRecord.val) > 0 THEN Len(Batch(file)) ELSE 0)

C1_Witness ==
    /\ pc = "compiled"
    /\ Len(Batch(file)) = 2
    /\ Batch(file)[1] # Batch(file)[2]
    /\ Len(FirstRecord.val) = 2
    /\ Len(evs.rows) = 2

\* the batch-wide maximum length of the sequence field k
Capacity(k) ==
    LET lens == {Len(Get(Batch(file)[i], k).val) : i \in 1..Len(Batch(file))}
    IN  CHOOSE c \in lens : \A n \in lens : n <= c

\* a number as tenths; Python compares int, bool and float by value
Tenths(v) ==
    CASE v.kind = "int" -> 10 * v.val
      [] v.kind = "bool" -> IF v.val THEN 10 ELSE 0
      [] v.kind = "float" -> v.val.x10
IsNumber(v) == v.kind \in {"int", "bool", "float"}

\* the stored value is the source value: numbers by value, a sub-record by
\* the values of its fields, anything else as it is
SameValue(dt, src, stored) ==
    IF IsNumber(src) /\ IsNumber(stored)
    THEN (IsNaN(src) /\ IsNaN(stored))
         \/ (~IsNaN(src) /\ ~IsNaN(stored) /\ Tenths(src) = Tenths(stored))
    ELSE IF src.kind = "dict"
    THEN /\ stored.kind = "rec"
         /\ \A j \in 1..Len(dt.fields) :
               /\ HasKey(src, dt.fields[j].name)
               /\ LET w == Get(src, dt.fields[j].name)
                  IN  IsNumber(w) /\ IsNumber(stored.val[j])
                      /\ ((IsNaN(w) /\ IsNaN(stored.val[j]))
                          \/ (~IsNaN(w) /\ ~IsNaN(stored.val[j])
                              /\ Tenths(w) = Tenths(stored.val[j])))
    ELSE src = stored

\* the stored value is the source value converted to the element type dt
ConvertedValue(dt, src, stored) ==
    IF src.kind = "dict" THEN SameValue(dt, src, stored)
    ELSE stored = Cast(dt, src).val

\* slot i of sequence field k holds record i's list, by the relation Same,
\* padded with zeros to the batch-wide maximum
PaddedSlot(k, i, Same(_, _, _)) ==
    LET f == evs.dtype.fields[FieldIndex(evs.dtype, k)]
        src == Get(Batch(file)[i], k).val
        cell == evs.rows[i].val[FieldIndex(evs.dtype, k)]
    IN  /\ f.shape = <<Capacity(k)>>
        /\ cell.kind = "arr"
        /\ Len(cell.val) = Capacity(k)
        /\ \A j \in 1..Capacity(k) :
              IF j <= Len(src) THEN Same(f.dt, src[j], cell.val[j])
              ELSE cell.val[j] = Zero(f.dt)

\* C2 as stated: every sequence field of the first record is stored, in
\* every slot, as that record's source list zero-padded to the batch-wide
\* maximum length: the first L elements equal the source values in order.
C2_PaddedSourceLists ==
    pc = "compiled" =>
        \A n \in 1..Len(list_names(FirstRecord)), i \in 1..Len(Batch(file)) :
            PaddedSlot(list_names(FirstRecord)[n], i, SameValue)

\* C2 amended: the first L elements are the source values converted to the
\* field's element type, the rest are zero, and the capacity is the
\* batch-wide maximum length.
C2_PaddedConvertedLists ==
    pc = "compiled" =>
        \A n \in 1..Len(list_names(FirstRecord)), i \in 1..Len(Batch(file)) :
            PaddedSlot(list_names(FirstRecord)[n], i, ConvertedValue)

C2_Witness ==
    /\ pc = "compiled"
    /\ Len(Batch(file)) = 2
    /\ HasKey(FirstRecord, "vals")
    /\ Len(Get(Batch(file)[1], "vals").val) = 1
    /\ Len(Get(Batch(file)[2], "vals").val) = 2
    /\ evs.rows[1].val[FieldIndex(evs.dtype, "vals")].val[2] = PyInt(0)
    /\ evs.rows[2].val[FieldIndex(evs.dtype, "vals")].val[2] # PyInt(0)

\* C3 as stated: get_element_dtype maps every boolean to the Bool type 'b'
\* (never to int64), every integer to int64, every float to float64, every
\* text to a 256-capacity text type, and fails on a value with no rule.
C3_ClassifierRules ==
    pc = "classified" =>
        /\ element.kind = "bool" => dtype = Ok(DT("b"))
        /\ element.kind = "int" => dtype = Ok(DT("int64"))
        /\ element.kind = "float" => dtype = Ok(DT("float64"))
        /\ element.kind = "text" => dtype = Ok(DT("U256"))
        /\ element.kind = "bytes" => dtype = Ok(DT("S256"))
        /\ element.kind = "null" => dtype.err # ""

RECURSIVE HasNaN(_)
\* some element of the stored value, at any depth, is NaN
HasNaN(v) ==
    IF v.kind \in {"rec", "arr"}
    THEN \E j \in 1..Len(v.val) : HasNaN(v.val[j])
    ELSE IsNaN(v)

ArrayHasNaN(a) == \E i \in 1..Len(a.rows) : HasNaN(a.rows[i])

\* C4 as stated: after one replace_nans pass no element of the array
\* remains NaN.
C4_NoNaNRemains ==
    pc = "sanitized" => ~ArrayHasNaN(evs)

Sentinel == PyFloat(10 * DefaultReplacementVal)
IsFloatColumn(f) == f.dt.base = "float64"

\* C4 amended: after one replace_nans pass over a record array, every NaN
\* of a top-level float64 field (scalar or fixed array) is the sentinel
\* -999, every other element of the array is unchanged (a NaN inside a
\* sub-record stays), and a second pass changes nothing.
C4_TopLevelFloatFieldsSanitized ==
    pc = "sanitized" =>
        LET was == from_dict(file).val
        IN  /\ evs.dtype = was.dtype
            /\ Len(evs.rows) = Len(was.rows)
            /\ \A i \in 1..Len(evs.rows), j \in 1..Len(evs.dtype.fields) :
                  LET f == evs.dtype.fields[j]
                      old == was.rows[i].val[j]
                      new == evs.rows[i].val[j]
                      sub(v) == IF IsNaN(v) THEN Sentinel ELSE v
                  IN  IF ~IsFloatColumn(f) THEN new = old
                      ELSE IF f.shape = <<>> THEN new = sub(old)
                      ELSE new = Arr([n \in 1..Len(old.val) |-> sub(old.val[n])])
            /\ replace_nans(evs, DefaultReplacementVal) = Ok(evs)

C4_Witness ==
    /\ pc = "sanitized"
    /\ ArrayHasNaN(from_dict(file).val)
    /\ \E i \in 1..Len(evs.rows), j \in 1..Len(evs.dtype.fields) :
          /\ evs.dtype.fields[j].shape # <<>>
          /\ \E n \in 1..Len(evs.rows[i].val[j].val) :
                evs.rows[i].val[j].val[n] = Sentinel
    /\ \E i \in 1..Len(evs.rows), j \in 1..Len(evs.dtype.fields) :
          evs.rows[i].val[j] = Sentinel

\* C6 as stated: compiling an empty batch raises nothing and returns a
\* zero-length array, and copy_values on an empty batch is a no-op.
C6_EmptyBatchCompiles ==
    /\ (file = PyList(<<>>) /\ pc # "start") =>
           (pc \in {"compiled", "sanitized"} /\ err = "" /\ Len(evs.rows) = 0)
    /\ copy_values(<<>>, evs, <<>>) = Ok(evs)

\* the schema of record r compiled alone, without the shapes
TypesAlone(r) ==
    LET a == from_dict(PyList(<<r>>)).val
    IN  [j \in 1..Len(a.dtype.fields) |->
            [name |-> a.dtype.fields[j].name, dt |-> a.dtype.fields[j].dt]]

\* C10 as stated: the schema lists the fields in the first record's key
\* order, each with the one type taken from the first record; later records
\* never reorder, add or retype a field.
C10_SchemaFromFirstRecord ==
    (pc = "compiled" /\ Len(FirstRecord.val) > 0) =>
        /\ FieldNames(evs.dtype) = Keys(FirstRecord)
        /\ from_dict(PyList(<<FirstRecord>>)).err = ""
        /\ [j \in 1..Len(evs.dtype.fields) |->
               [name |-> evs.dtype.fields[j].name, dt |-> evs.dtype.fields[j].dt]]
           = TypesAlone(FirstRecord)

\* the records whose sequence k is not empty
NonEmptyAt(k) ==
    {i \in 1..Len(Batch(file)) : Len(Get(Batch(file)[i], k).val) > 0}

\* the type of the first element of the first non-empty sequence k
\* (numpy's default float64 when every one is empty)
ElementTypeOf(k) ==
    IF NonEmptyAt(k) = {} THEN DT("float64")
    ELSE LET i == CHOOSE m \in NonEmptyAt(k) : \A n \in NonEmptyAt(k) : m <= n
         IN  get_element_dtype(Get(Batch(file)[i], k).val[1]).val

\* C10 amended: the schema lists the fields in the first record's key order;
\* a non-sequence field has the type of the first record's value, a sequence
\* field has the element type of the first record in which that sequence is
\* not empty and the batch-wide maximum length as capacity.
C10_SchemaOrderAndTypes ==
    (pc = "compiled" /\ Len(FirstRecord.val) > 0) =>
        /\ FieldNames(evs.dtype) = Keys(FirstRecord)
        /\ \A j \in 1..Len(evs.dtype.fields) :
              LET f == evs.dtype.fields[j]
                  v == FirstRecord.val[j].v
              IN  IF v.kind = "list"
                  THEN /\ f.shape = <<Capacity(f.name)>>
                       /\ f.dt = ElementTypeOf(f.name)
                  ELSE /\ f.shape = <<>>
                       /\ f.dt = get_element_dtype(v).val

C10_Witness ==
    /\ pc = "compiled"
    /\ Len(Batch(file)) = 2
    /\ Keys(Batch(file)[1]) = <<"vals", "x">>
    /\ Keys(Batch(file)[2]) = <<"x", "vals">>
    /\ Get(Batch(file)[1], "x").kind = "int"
    /\ Get(Batch(file)[2], "x").kind = "float"
    /\ Len(Get(Batch(file)[1], "vals").val) = 0
    /\ Len(Get(Batch(file)[2], "vals").val) = 2
    /\ FieldNames(evs.dtype) = <<"vals", "x">>

(***************************************************************************)
(* Properties of read                                                      *)
(***************************************************************************)
Returned == pc = "returned"
IsJson == splitext(self.filename) = ".json"

\* the array the source delivers, before any record is dropped
Built == IF IsJson THEN from_dict(file).val ELSE file

\* the eegfile text of input record i, as the source holds it
InputEegfile(i) ==
    IF IsJson
    THEN (IF HasKey(Batch(file)[i], "eegfile")
          THEN Get(Batch(file)[i], "eegfile").val ELSE <<>>)
    ELSE Attr(file, i, "eegfile").val

\* the eegfile text of record i as the array holds it
StoredEegfile(i) == PyStr(Attr(Built, i, "eegfile"))

\* the indices 1..n that satisfy Long, in increasing order
IndicesWhere(n, Long(_)) == SelectSeq([i \in 1..n |-> i], Long)

\* an output row is its source row, but for the rewritten eegfile path and
\* the NaN the sanitizer replaced
RowFrom(out, src) ==
    \A j \in 1..Len(Built.dtype.fields) :
        \/ Built.dtype.fields[j].name = "eegfile"
        \/ out.val[j] = src.val[j]
        \/ (IsNaN(src.val[j]) /\ out.val[j] = Sentinel)

\* read returns the records at the indices Expected, in that order
ReturnsRecords(Expected) ==
    /\ kept = Expected
    /\ Len(evs.rows) = Len(Expected)
    /\ \A m \in 1..Len(evs.rows) : RowFrom(evs.rows[m], Built.rows[kept[m]])

\* C5 as stated: with eliminate_events_with_no_eeg enabled, read returns
\* exactly the input records whose eegfile text is longer than 3, in their
\* original order; with the option disabled it drops no record.
C5_KeepsLongEegfileRecords ==
    (Returned /\ HasAttr(Built, "eegfile")) =>
        ReturnsRecords(IF self.eliminate_events_with_no_eeg
                       THEN IndicesWhere(Len(Built.rows),
                                         LAMBDA i : Len(InputEegfile(i)) > 3)
                       ELSE [i \in 1..Len(Built.rows) |-> i])

\* C5 amended: with the option enabled, read returns exactly the records
\* whose eegfile, as the compiled array holds it (for the JSON source: after
\* accent stripping), is longer than 3, in their original order; with the
\* option disabled it drops no record.
C5_KeepsLongStoredEegfileRecords ==
    (Returned /\ HasAttr(Built, "eegfile")) =>
        ReturnsRecords(IF self.eliminate_events_with_no_eeg
                       THEN IndicesWhere(Len(Built.rows),
                                         LAMBDA i : Len(StoredEegfile(i)) > 3)
                       ELSE [i \in 1..Len(Built.rows) |-> i])

C5_Witness ==
    /\ Returned
    /\ IsJson
    /\ self.eliminate_events_with_no_eeg
    /\ Len(Built.rows) = 2
    /\ Len(InputEegfile(1)) = 4
    /\ Len(StoredEegfile(1)) = 2
    /\ kept = <<2>>
    /\ Len(evs.rows) = 1

\* a fatal failure of the read in progress: the compilation of the JSON
\* batch raises (the classifier meets a value with no rule), or prefix
\* discovery finds no prefix where read_matlab asks for one
FatalFailure ==
    IF IsJson THEN from_dict(file).err # ""
    ELSE HasAttr(file, "eegfile") /\ self.normalize_eeg_path /\ Len(dir_prefix) = 0

\* C7: a read that meets a fatal failure hands the exception to the caller
\* and returns no array, partial or complete.
C7_FailureReturnsNoArray ==
    /\ pc = "raised" => (err # "" /\ evs = NoArray)
    /\ Returned => (err = "" /\ ~FatalFailure)
    /\ FatalFailure => pc \notin {"json_eliminate", "json_eeg_dir", "mat_modify", "mat_nans"}

C7_Witness ==
    /\ pc = "raised"
    /\ err = "Exception"
    /\ IsJson
    /\ Len(Batch(file)) = 2
    /\ evs = NoArray

\* C8 as stated: with eliminate_nans enabled, the array read returns, from
\* either source, holds no NaN in any float64 field.
C8_ReturnedArrayHasNoFloatNaN ==
    (Returned /\ self.eliminate_nans) =>
        \A i \in 1..Len(evs.rows), j \in 1..Len(evs.dtype.fields) :
            IsFloatColumn(evs.dtype.fields[j]) => ~HasNaN(evs.rows[i].val[j])

\* the schema of the input records at the indices idx, compiled alone
SchemaOf(idx) ==
    from_dict(PyList([m \in 1..Len(idx) |-> Batch(file)[idx[m]]])).val.dtype

\* C9 as stated: with eliminate_events_with_no_eeg enabled, the schema and
\* every capacity of the returned array are those of the retained records
\* alone; a dropped record contributes nothing.
C9_SchemaFromRetainedRecords ==
    (Returned /\ IsJson /\ self.eliminate_events_with_no_eeg /\ Len(kept) > 0) =>
        evs.dtype = SchemaOf(kept)

\* C9 amended: read_json drops the records after compilation: the schema and
\* every capacity of the returned array are those of the whole batch, the
\* dropped records included.
C9_SchemaFromAllRecords ==
    (Returned /\ IsJson) =>
        /\ evs.dtype = SchemaOf([i \in 1..Len(Batch(file)) |-> i])
        /\ \A j \in 1..Len(evs.dtype.fields) :
              FirstRecord.val[j].v.kind = "list" =>
                  evs.dtype.fields[j].shape = <<Capacity(evs.dtype.fields[j].name)>>

C9_Witness ==
    /\ Returned
    /\ IsJson
    /\ self.eliminate_events_with_no_eeg
    /\ Len(Batch(file)) = 2
    /\ kept = <<1>>
    /\ Len(Get(Batch(file)[1], "vals").val) = 1
    /\ Len(Get(Batch(file)[2], "vals").val) = 2
    /\ evs.dtype.fields[FieldIndex(evs.dtype, "vals")].shape = <<2>>

(***************************************************************************)
(* Properties of copy_values                                               *)
(***************************************************************************)
\* the value copy_values assigns for v: a text goes through strip_accents
OwnValue(v) == IF v.kind = "text" THEN PyText(strip_accents(v.val)) ELSE v

\* the stored scalar is the source value itself: numbers by value, a text
\* after accent stripping
HoldsValue(dt, src, stored) == SameValue(dt, OwnValue(src), stored)

\* the stored scalar is the source value assigned to an element of type dt
HoldsAssigned(dt, src, stored) == stored = Cast(dt, OwnValue(src)).val

\* cell of slot i holds record i's value of the non-sequence field f, by
\* the relation Holds; a sub-record field by field; absent(dt, stored)
\* settles a field the record does not carry
SlotHolds(f, rec, cell, Holds(_, _, _), absent(_, _)) ==
    IF ~HasKey(rec, f.name) THEN absent(f.dt, cell)
    ELSE IF f.dt.base = "record"
    THEN /\ Get(rec, f.name).kind = "dict"
         /\ cell.kind = "rec"
         /\ \A n \in 1..Len(f.dt.fields) :
               LET g == f.dt.fields[n]
                   sub == Get(rec, f.name)
               IN  IF HasKey(sub, g.name)
                   THEN Holds(g.dt, Get(sub, g.name), cell.val[n])
                   ELSE absent(g.dt, cell.val[n])
    ELSE Holds(f.dt, Get(rec, f.name), cell)

\* every non-sequence field of every slot, by the relation Holds
AllSlotsHold(Holds(_, _, _), absent(_, _)) ==
    \A i \in 1..Len(evs.rows), j \in 1..Len(evs.dtype.fields) :
        evs.dtype.fields[j].shape = <<>> =>
            SlotHolds(evs.dtype.fields[j], Batch(file)[i],
                      evs.rows[i].val[j], Holds, absent)

\* C11 as stated: for every record index i and every non-sequence field of
\* the schema, slot i holds record i's own value (a text after accent
\* stripping), and each nested field of a sub-record field of slot i equals
\* the corresponding nested field of record i.
C11_SlotsHoldOwnValues ==
    (pc = "compiled" /\ evs.dtype.base = "record") =>
        AllSlotsHold(HoldsValue, LAMBDA dt, stored : TRUE)

\* C11 amended: slot i holds record i's own value as assignment to the
\* field's type converts it (the type the first record fixed: a float
\* assigned to an int64 field is truncated, a number assigned to a text
\* field becomes its text, None assigned to a float64 field becomes NaN),
\* and the field's zero when record i does not carry the field; each nested
\* field of slot i comes from record i, never from another record.
C11_SlotsHoldAssignedValues ==
    (pc = "compiled" /\ evs.dtype.base = "record") =>
        AllSlotsHold(HoldsAssigned, LAMBDA dt, stored : stored = Zero(dt))

C11_Witness ==
    /\ pc = "compiled"
    /\ Len(Batch(file)) = 2
    /\ \A i \in 1..2 : HasKey(Batch(file)[i], "st") /\ HasKey(Batch(file)[i], "x")
    /\ Get(Get(Batch(file)[1], "st"), "amp") # Get(Get(Batch(file)[2], "st"), "amp")
    /\ \A i \in 1..2 :
          /\ evs.rows[i].val[FieldIndex(evs.dtype, "st")]
                = Rec(<<Get(Get(Batch(file)[i], "st"), "amp")>>)
          /\ evs.rows[i].val[FieldIndex(evs.dtype, "x")] = Get(Batch(file)[i], "x")

(***************************************************************************)
(* Properties of the per-field recovery of replace_nans                    *)
(***************************************************************************)
\* the array replace_nans was given
Compiled == from_dict(file)

\* some field of the compiled array makes np.isnan raise TypeError
HasMismatchedField ==
    /\ Compiled.err = ""
    /\ Compiled.val.dtype.base = "record"
    /\ \E j \in 1..Len(Compiled.val.dtype.fields) :
          IsnanTypeError(Compiled.val.dtype.fields[j])

\* column j of the sanitized array is column j of the compiled array with
\* every NaN replaced by the sentinel
ColumnSanitized(j) ==
    \A i \in 1..Len(evs.rows) :
        LET old == Compiled.val.rows[i].val[j]
            new == evs.rows[i].val[j]
        IN  /\ ~HasNaN(new)
            /\ IF old.kind = "arr"
               THEN /\ Len(new.val) = Len(old.val)
                    /\ \A n \in 1..Len(old.val) :
                          new.val[n] = (IF IsNaN(old.val[n]) THEN Sentinel
                                        ELSE old.val[n])
               ELSE new = (IF IsNaN(old) THEN Sentinel ELSE old)

\* C12: when np.isnan fails on a field that is not of a floating type, that
\* field is skipped and left unchanged and the pass goes on: every float64
\* field, before or after the failing one in the schema, is still
\* sanitized, and the pass does not abort the array.
C12_MismatchedFieldSkipped ==
    HasMismatchedField =>
        /\ pc # "raised"
        /\ pc = "sanitized" =>
              /\ evs.dtype = Compiled.val.dtype
              /\ Len(evs.rows) = Len(Compiled.val.rows)
              /\ \A j \in 1..Len(evs.dtype.fields) :
                    IF IsnanTypeError(evs.dtype.fields[j])
                    THEN \A i \in 1..Len(evs.rows) :
                            evs.rows[i].val[j] = Compiled.val.rows[i].val[j]
                    ELSE IsFloatColumn(evs.dtype.fields[j]) => ColumnSanitized(j)

C12_Witness ==
    /\ pc = "sanitized"
    /\ FieldNames(evs.dtype) = <<"x", "t", "y">>
    /\ IsnanTypeError(evs.dtype.fields[2])
    /\ \E i \in 1..Len(evs.rows) :
          /\ IsNaN(Compiled.val.rows[i].val[1])
          /\ IsNaN(Compiled.val.rows[i].val[3])
          /\ evs.rows[i].val = <<Sentinel, PyText(<<"a">>), Sentinel>>

(***************************************************************************)
(* Properties of the reader's flags                                        *)
(***************************************************************************)
\* C13 as stated: after construction and after any sequence of assignments
\* to use_reref_eeg and to alter_eeg_path_flag, alter_eeg_path_flag equals
\* not use_reref_eeg; in particular the flag read_matlab tests when it
\* decides on the eeg.reref -> eeg.noreref rewrite is not use_reref_eeg.
C13_AlterFlagIsNotUseReref ==
    /\ self.alter_eeg_path_flag = ~self.use_reref_eeg
    /\ pc = "mat_modify" => (self.alter_eeg_path_flag <=> ~self.use_reref_eeg)

====
